---- MODULE Spec2Model ----
(***************************************************************************)
(* A model of lmao-imdb-1k/pretrain_textcat.py: the EarlyStopping object,  *)
(* the epoch loop of train_textcat with report_progress, the data loader   *)
(* load_textcat_data, the optimizer configuration and evaluate_textcat.    *)
(*                                                                         *)
(* Numbers the script holds as floats are modelled exactly: accuracies in  *)
(* tenths (5 is 0.5), classifier scores in tenths, hyperparameters as      *)
(* naturals.  Strings are tuples of one-character strings.                 *)
(***************************************************************************)
EXTENDS Integers, Sequences, FiniteSets, TLC

VARIABLES
    \* train_textcat
    pc, i, n_iter, nTrain, b, best_acc, early_stopping, params, scores,
    reports, printed, sent, send_metrics, USE_TQDM, accs, rets, update_on,
    failure,
    \* load_textcat_data
    lpc, lines, limit, num_eval, data, shuffled, load_result,
    \* get_opt_params / configure_optimizer
    opc, kwargs, opt_params, opt, applied,
    \* evaluate_textcat
    epc, n_docs, doc, gold, cats, counters, n_gold_pairs, n_scored_pairs,
    eval_scores

trainVars == <<pc, i, n_iter, nTrain, b, best_acc, params, scores, reports,
               printed, sent, send_metrics, USE_TQDM, update_on, failure>>
esVars == <<early_stopping, accs, rets>>
loadVars == <<lpc, lines, limit, num_eval, data, shuffled, load_result>>
optVars == <<opc, kwargs, opt_params, opt, applied>>
evalVars == <<epc, n_docs, doc, gold, cats, counters, n_gold_pairs,
              n_scored_pairs, eval_scores>>
vars == <<trainVars, esVars, loadVars, optVars, evalVars>>

----------------------------------------------------------------------------
(* Bounds of the model *)

MaxIter == 7        \* largest iteration budget n_iter
MaxTrain == 3       \* largest number of training examples in the loop
MaxPatience == 3    \* largest patience of a free-standing EarlyStopping
MaxCalls == 4       \* EarlyStopping.update calls on a free-standing object
MaxLines == 3       \* largest number of lines of dataset.csv
MaxHyper == 2       \* hyperparameters range over 0..MaxHyper
MaxApply == 2       \* applications of configure_optimizer
MaxDocs == 2        \* examples of the evaluation split

(* Program constants *)

InitialBest == 5    \* EarlyStopping.best starts at 0.5
TrainPatience == 5  \* train_textcat builds EarlyStopping("acc", 5)
BatchSize == 2      \* train_textcat's default batch_size
Threshold == 5      \* the 0.5 threshold of evaluate_textcat
NClasses == 4       \* __gen_dict_label builds the keys "1".."4"

\* Accuracies an evaluation can return, in tenths: below the initial best,
\* equal to it, and above it.
AccValues == {4, 5, 6}

Max(x, y) == IF x >= y THEN x ELSE y
Min(x, y) == IF x <= y THEN x ELSE y

----------------------------------------------------------------------------
(* EarlyStopping *)

\* EarlyStopping.__init__(metric, patience)
EarlyStoppingNew(metric, patience) ==
    [metric |-> metric, max_patience |-> patience,
     current_patience |-> patience, best |-> InitialBest]

\* A variant of update in which a tie with the best does not count as an
\* improvement.
UpdateStrict(es, result) ==
    IF result[es.metric] > es.best
    THEN [es |-> [es EXCEPT !.best = result[es.metric],
                            !.current_patience = es.max_patience],
          ret |-> FALSE]
    ELSE [es |-> [es EXCEPT !.current_patience = es.current_patience - 1],
          ret |-> es.current_patience - 1 <= 0]

\* EarlyStopping.update(result): the object after the call and the value
\* returned.
Update(es, result) ==
    IF result[es.metric] >= es.best
    THEN [es |-> [es EXCEPT !.best = result[es.metric],
                            !.current_patience = es.max_patience],
          ret |-> FALSE]
    ELSE [es |-> [es EXCEPT !.current_patience = es.current_patience - 1],
          ret |-> es.current_patience - 1 <= 0]

\* The result record evaluate_textcat hands to update: only "acc" is read.
ScoresOf(acc) == [acc |-> acc]

----------------------------------------------------------------------------
(* Values of the variables of the parts a specification does not run *)

NoScores == [acc |-> -1]
NoOpt == <<>>
NoKwargs == <<>>
NoParams == <<>>
NoCounters == <<>>
NoSplits == <<>>
NoEarlyStopping == <<>>

TrainIdle ==
    /\ pc = "idle" /\ i = 0 /\ n_iter = 0 /\ nTrain = 0 /\ b = 0
    /\ best_acc = 0 /\ params = "live" /\ scores = NoScores
    /\ reports = <<>> /\ printed = 0 /\ sent = <<>>
    /\ send_metrics = "noop" /\ USE_TQDM = "True" /\ update_on = {}
    /\ failure = "none"
ESIdle ==
    /\ early_stopping = NoEarlyStopping
    /\ accs = <<>> /\ rets = <<>>
LoadIdle ==
    /\ lpc = "idle" /\ lines = <<>> /\ limit = 0 /\ num_eval = 0
    /\ data = <<>> /\ shuffled = <<>> /\ load_result = NoSplits
OptIdle ==
    /\ opc = "idle" /\ kwargs = NoKwargs /\ opt_params = NoParams
    /\ opt = NoOpt /\ applied = 0
EvalIdle ==
    /\ epc = "idle" /\ n_docs = 0 /\ doc = 0 /\ gold = <<>> /\ cats = <<>>
    /\ counters = NoCounters /\ n_gold_pairs = 0 /\ n_scored_pairs = 0
    /\ eval_scores = <<>>

----------------------------------------------------------------------------
(* A free-standing EarlyStopping object fed a sequence of accuracies *)

InitES ==
    /\ TrainIdle /\ LoadIdle /\ OptIdle /\ EvalIdle
    /\ \E patience \in 1..MaxPatience :
           early_stopping = EarlyStoppingNew("acc", patience)
    /\ accs = <<>>
    /\ rets = <<>>

\* One call early_stopping.update({"acc": acc}).
ESCall ==
    /\ Len(accs) < MaxCalls
    /\ \E acc \in AccValues :
           LET r == Update(early_stopping, ScoresOf(acc)) IN
           /\ early_stopping' = r.es
           /\ accs' = Append(accs, acc)
           /\ rets' = Append(rets, r.ret)
    /\ UNCHANGED <<trainVars, loadVars, optVars, evalVars>>

NextES == ESCall
SpecES == InitES /\ [][NextES]_vars

----------------------------------------------------------------------------
(* train_textcat: the epoch loop *)

\* What the metrics sink can be when report_progress calls it: the no-op
\* lambda the entry point installs, a callable that raises, or no binding.
SinkKinds == {"noop", "raises", "undefined"}

\* What the global USE_TQDM can be when the loop reads it: True as the entry
\* point sets it, False, or no binding.
TqdmKinds == {"True", "False", "undefined"}

\* range(n_iter + 1): one epoch too many.
EpochRangeOffByOne(n) == 0..n

\* range(n_iter)
EpochRange(n) == 0..(n - 1)

\* minibatch(train_data, size=batch_size): consecutive batches of batch_size
\* examples, the last one shorter.
NBatches == (nTrain + BatchSize - 1) \div BatchSize

\* best_acc = scores["acc"], forgetting the earlier best.
BestAccLatest(best, acc) == acc

\* best_acc = max(best_acc, scores["acc"])
BestAcc(best, acc) == Max(best, acc)

\* The parameters of the model once the with-block of use_params is left.
UseParamsExit(p) == "live"

Init ==
    /\ LoadIdle /\ OptIdle /\ EvalIdle
    /\ pc = "for"
    /\ i = 0
    /\ n_iter \in 0..MaxIter
    /\ nTrain \in 1..MaxTrain
    /\ b = 0
    /\ best_acc = 0
    /\ early_stopping = EarlyStoppingNew("acc", TrainPatience)
    /\ params = "live"
    /\ scores = NoScores
    /\ reports = <<>>
    /\ printed = 0
    /\ sent = <<>>
    /\ send_metrics \in SinkKinds
    /\ USE_TQDM \in TqdmKinds
    /\ accs = <<>>
    /\ rets = <<>>
    /\ update_on = {}
    /\ failure = "none"

\* for i in range(n_iter): the budget is used up, or the next epoch starts:
\* losses is reset, USE_TQDM is read (a NameError when it has no binding; the
\* progress bar it asks for wraps train_data and changes nothing else) and
\* the minibatches are set up.
ForNext ==
    /\ pc = "for"
    /\ IF i \notin EpochRange(n_iter)
       THEN pc' = "stopped_budget" /\ UNCHANGED <<b, failure>>
       ELSE IF USE_TQDM = "undefined"
       THEN pc' = "aborted" /\ failure' = "USE_TQDM" /\ UNCHANGED b
       ELSE pc' = "batches" /\ b' = 0 /\ UNCHANGED failure
    /\ UNCHANGED <<i, n_iter, nTrain, best_acc, params, scores, reports,
                   printed, sent, send_metrics, USE_TQDM, update_on>>
    /\ UNCHANGED <<esVars, loadVars, optVars, evalVars>>

\* nlp.update on the next minibatch: it runs on the parameters the model
\* holds, or raises and aborts the run.
NlpUpdate ==
    /\ pc = "batches"
    /\ b < NBatches
    /\ \/ /\ b' = b + 1
          /\ update_on' = update_on \cup {params}
          /\ UNCHANGED <<pc, failure>>
       \/ /\ pc' = "aborted"
          /\ failure' = "nlp.update"
          /\ UNCHANGED <<b, update_on>>
    /\ UNCHANGED <<i, n_iter, nTrain, best_acc, params, scores, reports,
                   printed, sent, send_metrics, USE_TQDM>>
    /\ UNCHANGED <<esVars, loadVars, optVars, evalVars>>

\* with textcat.model.use_params(optimizer.averages): entering the block.
UseParams ==
    /\ pc = "batches"
    /\ b = NBatches
    /\ params' = "averaged"
    /\ pc' = "evaluate"
    /\ UNCHANGED <<i, n_iter, nTrain, b, best_acc, scores, reports, printed,
                   sent, send_metrics, USE_TQDM, update_on, failure>>
    /\ UNCHANGED <<esVars, loadVars, optVars, evalVars>>

\* The evaluation with the with-block never left: the averaged parameters
\* stay in the model.
EvaluateUnscoped ==
    /\ pc = "evaluate"
    /\ \E acc \in AccValues :
          /\ scores' = ScoresOf(acc)
          /\ accs' = Append(accs, acc)
          /\ best_acc' = BestAcc(best_acc, acc)
          /\ pc' = "report"
    /\ UNCHANGED <<i, n_iter, nTrain, b, params, reports, printed, sent,
                   send_metrics, USE_TQDM, update_on, failure, early_stopping,
                   rets>>
    /\ UNCHANGED <<loadVars, optVars, evalVars>>

\* scores = evaluate_textcat(...) inside the with-block, the block's exit, and
\* best_acc = max(best_acc, scores["acc"]); or evaluate_textcat raises, the
\* block is left and the run aborts.
Evaluate ==
    /\ pc = "evaluate"
    /\ params' = UseParamsExit(params)
    /\ \/ \E acc \in AccValues :
             /\ scores' = ScoresOf(acc)
             /\ accs' = Append(accs, acc)
             /\ best_acc' = BestAcc(best_acc, acc)
             /\ pc' = "report"
             /\ UNCHANGED failure
       \/ /\ pc' = "aborted"
          /\ failure' = "evaluate_textcat"
          /\ UNCHANGED <<scores, accs, best_acc>>
    /\ UNCHANGED <<i, n_iter, nTrain, b, reports, printed, sent,
                   send_metrics, USE_TQDM, update_on, early_stopping, rets>>
    /\ UNCHANGED <<loadVars, optVars, evalVars>>

\* report_progress with the call of the sink wrapped in a handler that
\* swallows its failure.
ReportProgressSwallow ==
    /\ pc = "report"
    /\ printed' = printed + 1
    /\ reports' = Append(reports, [epoch |-> i, best_acc |-> best_acc])
    /\ sent' = IF send_metrics = "noop"
               THEN Append(sent, [epoch |-> i, best_acc |-> best_acc])
               ELSE sent
    /\ pc' = "early_stopping"
    /\ UNCHANGED <<i, n_iter, nTrain, b, best_acc, params, scores,
                   send_metrics, USE_TQDM, update_on, failure>>
    /\ UNCHANGED <<esVars, loadVars, optVars, evalVars>>

\* report_progress(i, best_acc, losses, scores): print the line, then call
\* send_metrics; what the call raises leaves report_progress and
\* train_textcat.
ReportProgress ==
    /\ pc = "report"
    /\ printed' = printed + 1
    /\ reports' = Append(reports, [epoch |-> i, best_acc |-> best_acc])
    /\ IF send_metrics = "noop"
       THEN /\ sent' = Append(sent, [epoch |-> i, best_acc |-> best_acc])
            /\ pc' = "early_stopping"
            /\ UNCHANGED failure
       ELSE /\ pc' = "aborted"
            /\ failure' = "send_metrics"
            /\ UNCHANGED sent
    /\ UNCHANGED <<i, n_iter, nTrain, b, best_acc, params, scores,
                   send_metrics, USE_TQDM, update_on>>
    /\ UNCHANGED <<esVars, loadVars, optVars, evalVars>>

\* should_stop = early_stopping.update(scores); if should_stop: break
EarlyStoppingUpdate ==
    /\ pc = "early_stopping"
    /\ LET r == Update(early_stopping, scores) IN
       /\ early_stopping' = r.es
       /\ rets' = Append(rets, r.ret)
       /\ IF r.ret
          THEN pc' = "stopped_early" /\ i' = i
          ELSE pc' = "for" /\ i' = i + 1
    /\ UNCHANGED <<n_iter, nTrain, b, best_acc, params, scores, reports,
                   printed, sent, send_metrics, USE_TQDM, update_on, failure,
                   accs>>
    /\ UNCHANGED <<loadVars, optVars, evalVars>>

Next ==
    \/ ForNext
    \/ NlpUpdate
    \/ UseParams
    \/ Evaluate
    \/ ReportProgress
    \/ EarlyStoppingUpdate

Spec == Init /\ [][Next]_vars

\* The loop is scheduled by the interpreter alone: a step that can be taken is
\* taken.
FairSpec == Spec /\ WF_vars(Next)

----------------------------------------------------------------------------
(* load_textcat_data *)

\* The lines dataset.csv can hold: labels 1, 4 and 5, a text with a comma of
\* its own, a line with no comma, and a line whose label is not an integer.
LineSet ==
    { <<"1", ",", "a">>,
      <<"4", ",", "b">>,
      <<"5", ",", "c">>,
      <<"2", ",", "d", ",", "e">>,
      <<"3", "f">>,
      <<"x", ",", "g">> }

Digits == <<"0", "1", "2", "3", "4", "5", "6", "7", "8", "9">>

\* str(i) for the class numbers of __gen_dict_label
LabelNames == <<"1", "2", "3", "4">>

\* line.index(','): the first place of ch in line; 0 stands for the
\* ValueError raised when there is none.
IndexOf(line, ch) ==
    IF \E k \in 1..Len(line) : line[k] = ch
    THEN CHOOSE k \in 1..Len(line) :
             /\ line[k] = ch
             /\ \A j \in 1..(k - 1) : line[j] # ch
    ELSE 0

DigitValue(c) == (CHOOSE k \in 1..Len(Digits) : Digits[k] = c) - 1

\* Whether int(field) returns: field is a non-empty run of decimal digits
\* (the lines hold no sign, blank or underscore).
IsIntLiteral(field) ==
    /\ field # <<>>
    /\ \A k \in 1..Len(field) : \E d \in 1..Len(Digits) : Digits[d] = field[k]

\* int(field) for a run of decimal digits
RECURSIVE PyInt(_)
PyInt(field) ==
    IF field = <<>> THEN 0
    ELSE 10 * PyInt(SubSeq(field, 1, Len(field) - 1))
         + DigitValue(field[Len(field)])

\* The body of the reading loop for one line: the (sentence, label) pair, or
\* the ValueError of line.index or of int.
ParseLine(line) ==
    LET at == IndexOf(line, ",")
        field == SubSeq(line, 1, at - 1) IN
    IF at = 0 \/ ~IsIntLiteral(field)
    THEN [ok |-> FALSE, sentence |-> <<>>, label |-> 0]
    ELSE [ok |-> TRUE,
          sentence |-> SubSeq(line, at + 1, Len(line)),
          label |-> PyInt(field)]

\* The place a slice bound k denotes in a sequence of length n.
PyIndex(k, n) == IF k < 0 THEN Max(n + k, 0) ELSE Min(k, n)

\* s[k:]
SliceFrom(s, k) == SubSeq(s, PyIndex(k, Len(s)) + 1, Len(s))

\* s[:k]
SliceTo(s, k) == SubSeq(s, 1, PyIndex(k, Len(s)))

\* The split with the evaluation records left in the training pool.
SplitDataOverlap(d, lim, ne) ==
    [eval_data |-> SliceFrom(d, 0 - ne),
     train_data |-> SliceFrom(d, 0 - lim)]

\* eval_data = data[-num_eval:]; train_data = data[:-num_eval];
\* train_data = train_data[-limit:]
SplitData(d, lim, ne) ==
    [eval_data |-> SliceFrom(d, 0 - ne),
     train_data |-> SliceFrom(SliceTo(d, 0 - ne), 0 - lim)]

\* __gen_dict_label with range(1, 4): the last class is left out of the test.
GenDictLabelShort(y) ==
    [name \in {LabelNames[k] : k \in 1..NClasses} |->
        \E k \in 1..(NClasses - 1) : LabelNames[k] = name /\ y = k]

\* __gen_dict_label(y): d[str(i)] = (y == i) for i in range(1, 5)
GenDictLabel(y) ==
    [name \in {LabelNames[k] : k \in 1..NClasses} |->
        \E k \in 1..NClasses : LabelNames[k] = name /\ y = k]

InitLoad ==
    /\ TrainIdle /\ ESIdle /\ OptIdle /\ EvalIdle
    /\ lpc = "read"
    /\ \E n \in 0..MaxLines : lines \in [1..n -> LineSet]
    /\ limit = 0
    /\ num_eval = 0
    /\ data = <<>>
    /\ shuffled = <<>>
    /\ load_result = NoSplits

\* The reading loop over the lines of dataset.csv: every line parsed, or the
\* ValueError of the first one that does not parse.
LoadRead ==
    /\ lpc = "read"
    /\ IF \A k \in 1..Len(lines) : ParseLine(lines[k]).ok
       THEN /\ data' = [k \in 1..Len(lines) |->
                           <<ParseLine(lines[k]).sentence,
                             ParseLine(lines[k]).label>>]
            /\ lpc' = "shuffle"
       ELSE /\ lpc' = "raised_parse"
            /\ UNCHANGED data
    /\ UNCHANGED <<lines, limit, num_eval, shuffled, load_result>>
    /\ UNCHANGED <<trainVars, esVars, optVars, evalVars>>

\* random.shuffle(data): shuffled[k] is the line the record now at place k
\* came from.
LoadShuffle ==
    /\ lpc = "shuffle"
    /\ \E perm \in Permutations(1..Len(data)) :
          /\ shuffled' = [k \in 1..Len(data) |-> perm[k]]
          /\ data' = [k \in 1..Len(data) |-> data[perm[k]]]
    /\ lpc' = "split"
    /\ UNCHANGED <<lines, limit, num_eval, load_result>>
    /\ UNCHANGED <<trainVars, esVars, optVars, evalVars>>

\* The slices, the two zip(*...) unpackings (a ValueError on an empty split)
\* and the label maps; limit and num_eval are the arguments of the call.
LoadSplit ==
    /\ lpc = "split"
    /\ \E lim \in 0..(MaxLines + 1), ne \in 0..(MaxLines + 1) :
          LET parts == SplitData(data, lim, ne)
              places == SplitData([k \in 1..Len(data) |-> k], lim, ne) IN
          /\ limit' = lim
          /\ num_eval' = ne
          /\ IF parts.train_data = <<>> \/ parts.eval_data = <<>>
             THEN /\ lpc' = "raised_unpack"
                  /\ UNCHANGED load_result
             ELSE /\ lpc' = "returned"
                  /\ load_result' =
                       [train_texts |->
                            [k \in 1..Len(parts.train_data) |->
                                parts.train_data[k][1]],
                        train_cats |->
                            [k \in 1..Len(parts.train_data) |->
                                GenDictLabel(parts.train_data[k][2])],
                        eval_texts |->
                            [k \in 1..Len(parts.eval_data) |->
                                parts.eval_data[k][1]],
                        eval_cats |->
                            [k \in 1..Len(parts.eval_data) |->
                                GenDictLabel(parts.eval_data[k][2])],
                        train_pos |-> places.train_data,
                        eval_pos |-> places.eval_data]
    /\ UNCHANGED <<lines, data, shuffled>>
    /\ UNCHANGED <<trainVars, esVars, optVars, evalVars>>

NextLoad == LoadRead \/ LoadShuffle \/ LoadSplit
SpecLoad == InitLoad /\ [][NextLoad]_vars

----------------------------------------------------------------------------
(* get_opt_params and configure_optimizer *)

HyperValues == 0..MaxHyper

\* get_opt_params(kwargs)
get_opt_params(kw) ==
    [learn_rate |-> kw.learn_rate,
     optimizer_B1 |-> kw.b1,
     optimizer_B2 |-> kw.b1 * kw.b2_ratio,
     optimizer_eps |-> kw.adam_eps,
     L2 |-> kw.L2,
     grad_norm_clip |-> kw.grad_norm_clip]

\* configure_optimizer with opt.eps taken from params["optimizer_eps"].
configure_optimizer_eps(o, p) ==
    [o EXCEPT !.alpha = p.learn_rate,
              !.b1 = p.optimizer_B1,
              !.b2 = p.optimizer_B2,
              !.eps = p.optimizer_eps,
              !.L2 = p.L2,
              !.max_grad_norm = p.grad_norm_clip]

\* configure_optimizer(opt, params): the optimizer after the call.
configure_optimizer(o, p) ==
    [o EXCEPT !.alpha = p.learn_rate,
              !.b1 = p.optimizer_B1,
              !.b2 = p.optimizer_B2,
              !.eps = p.optimizer_B2,
              !.L2 = p.L2,
              !.max_grad_norm = p.grad_norm_clip]

\* main's keyword arguments are any hyperparameter set; the optimizer that
\* nlp.begin_training() returns holds the framework's defaults.
InitOpt ==
    /\ TrainIdle /\ ESIdle /\ LoadIdle /\ EvalIdle
    /\ opc = "main"
    /\ kwargs \in [learn_rate : HyperValues, b1 : HyperValues,
                   b2_ratio : HyperValues, adam_eps : HyperValues,
                   L2 : HyperValues, grad_norm_clip : HyperValues]
    /\ opt_params = NoParams
    /\ \E v \in HyperValues :
           opt = [alpha |-> v, b1 |-> v, b2 |-> v, eps |-> v, L2 |-> v,
                  max_grad_norm |-> v]
    /\ applied = 0

\* opt_params = get_opt_params(locals())
GetOptParams ==
    /\ opc = "main"
    /\ opt_params' = get_opt_params(kwargs)
    /\ opc' = "configure"
    /\ UNCHANGED <<kwargs, opt, applied>>
    /\ UNCHANGED <<trainVars, esVars, loadVars, evalVars>>

\* configure_optimizer(optimizer, opt_params), once or again.
ConfigureOptimizer ==
    /\ opc = "configure"
    /\ applied < MaxApply
    /\ opt' = configure_optimizer(opt, opt_params)
    /\ applied' = applied + 1
    /\ UNCHANGED <<opc, kwargs, opt_params>>
    /\ UNCHANGED <<trainVars, esVars, loadVars, evalVars>>

NextOpt == GetOptParams \/ ConfigureOptimizer
SpecOpt == InitOpt /\ [][NextOpt]_vars

----------------------------------------------------------------------------
(* evaluate_textcat *)

\* The labels an example's gold map and a doc's cats may hold.
EvalLabels == <<"1", "2">>

\* A score that is not a number: every comparison with it is false.
NaNScore == 0 - 1

\* Scores in tenths, on both sides of the threshold and on it.
ScoreValues == {4, 5, NaNScore}

\* Gold values: False and True, which compare as 0.0 and 1.0.
GoldValues == {0, 10}

Ge(x, t) == x # NaNScore /\ x >= t
Lt(x, t) == x # NaNScore /\ x < t

\* The body of the inner loop with score > 0.5 for score >= 0.5.
EvalPairStrict(c, score, g) ==
    IF Ge(score, Threshold + 1) /\ g >= Threshold
    THEN [c EXCEPT !.tp = c.tp + 1]
    ELSE IF Ge(score, Threshold + 1) /\ g < Threshold
    THEN [c EXCEPT !.fp = c.fp + 1]
    ELSE IF Lt(score, Threshold + 1) /\ g < Threshold
    THEN [c EXCEPT !.tn = c.tn + 1]
    ELSE IF Lt(score, Threshold + 1) /\ g >= Threshold
    THEN [c EXCEPT !.fn = c.fn + 1]
    ELSE c

\* The if/elif chain of the inner loop for one (score, gold value) pair; the
\* counters hold the counts without the 1e-8 seeds of fp and fn.
EvalPair(c, score, g) ==
    IF Ge(score, Threshold) /\ g >= Threshold
    THEN [c EXCEPT !.tp = c.tp + 1]
    ELSE IF Ge(score, Threshold) /\ g < Threshold
    THEN [c EXCEPT !.fp = c.fp + 1]
    ELSE IF Lt(score, Threshold) /\ g < Threshold
    THEN [c EXCEPT !.tn = c.tn + 1]
    ELSE IF Lt(score, Threshold) /\ g >= Threshold
    THEN [c EXCEPT !.fn = c.fn + 1]
    ELSE c

\* doc.cats.items(): the labels of the doc's scores, in order.
RECURSIVE Items(_, _)
Items(docCats, k) ==
    IF k = 0 THEN <<>>
    ELSE IF EvalLabels[k] \in DOMAIN docCats
         THEN Append(Items(docCats, k - 1), EvalLabels[k])
         ELSE Items(docCats, k - 1)

\* for label, score in doc.cats.items(): skip the labels gold lacks, count
\* the others.
RECURSIVE EvalItems(_, _, _, _)
EvalItems(c, items, docCats, g) ==
    IF items = <<>> THEN c
    ELSE LET label == Head(items)
             next == IF label \notin DOMAIN g THEN c
                     ELSE EvalPair(c, docCats[label], g[label]) IN
         EvalItems(next, Tail(items), docCats, g)

\* A mapping from some of the labels to values.
Maps(values) ==
    UNION {[S -> values] : S \in SUBSET {EvalLabels[k] : k \in 1..Len(EvalLabels)}}

InitEval ==
    /\ TrainIdle /\ ESIdle /\ LoadIdle /\ OptIdle
    /\ epc = "docs"
    /\ n_docs \in 0..MaxDocs
    /\ doc = 0
    /\ gold = <<>>
    /\ cats = <<>>
    /\ counters = [tp |-> 0, fp |-> 0, tn |-> 0, fn |-> 0]
    /\ n_gold_pairs = 0
    /\ n_scored_pairs = 0
    /\ eval_scores = <<>>

\* One round of the outer loop: the next doc of textcat.pipe with its scores,
\* gold = cats[i], and the inner loop over the doc's scores.  n_gold_pairs and
\* n_scored_pairs count the (example, gold label) pairs met, and those among
\* them whose label has a score that is a number.
EvalDoc ==
    /\ epc = "docs"
    /\ doc < n_docs
    /\ \E g \in Maps(GoldValues), docCats \in Maps(ScoreValues) :
          /\ gold' = g
          /\ cats' = docCats
          /\ counters' = EvalItems(counters, Items(docCats, Len(EvalLabels)),
                                   docCats, g)
          /\ n_gold_pairs' = n_gold_pairs + Cardinality(DOMAIN g)
          /\ n_scored_pairs' = n_scored_pairs
                + Cardinality({l \in DOMAIN g \cap DOMAIN docCats :
                                  docCats[l] # NaNScore})
    /\ doc' = doc + 1
    /\ UNCHANGED <<epc, n_docs, eval_scores>>
    /\ UNCHANGED <<trainVars, esVars, loadVars, optVars>>

\* The returned record.  A fraction [num, den, seeds] stands for
\* num / (den + seeds * 1e-8); textcat_f is 2pr / (p + r + 1e-8) of the two
\* fractions it holds.
EvalReturn ==
    /\ epc = "docs"
    /\ doc = n_docs
    /\ LET c == counters
           p == [num |-> c.tp, den |-> c.tp + c.fp, seeds |-> 1]
           r == [num |-> c.tp, den |-> c.tp + c.fn, seeds |-> 1] IN
       eval_scores' =
           [textcat_p |-> p,
            textcat_r |-> r,
            textcat_f |-> [p |-> p, r |-> r],
            acc |-> [num |-> c.tp + c.tn,
                     den |-> c.tp + c.tn + c.fp + c.fn,
                     seeds |-> 2]]
    /\ epc' = "returned"
    /\ UNCHANGED <<n_docs, doc, gold, cats, counters, n_gold_pairs,
                   n_scored_pairs>>
    /\ UNCHANGED <<trainVars, esVars, loadVars, optVars>>

NextEval == EvalDoc \/ EvalReturn
SpecEval == InitEval /\ [][NextEval]_vars

----------------------------------------------------------------------------
(* Properties of EarlyStopping and of the epoch loop *)

\* The largest of floor and the first k entries of accs.
RECURSIVE MaxOfPrefix(_, _)
MaxOfPrefix(k, floor) ==
    IF k = 0 THEN floor ELSE Max(accs[k], MaxOfPrefix(k - 1, floor))

\* Among the first k epochs, the number of most recent consecutive ones whose
\* accuracy was strictly below the best of the epochs before it (0.5 at least).
RECURSIVE Trailing(_)
Trailing(k) ==
    IF k = 0 THEN 0
    ELSE IF accs[k] < MaxOfPrefix(k - 1, InitialBest)
         THEN 1 + Trailing(k - 1)
         ELSE 0

Terminated == pc \in {"stopped_early", "stopped_budget", "aborted"}

\* C1 as stated: with patience 2, accuracies 0.6, 0.6, 0.6 give False, False,
\* True, the second call leaving patience 1 and the third patience 0.
C1Original ==
    early_stopping.max_patience = 2 =>
        /\ accs = <<6>> =>
              /\ rets = <<FALSE>>
              /\ early_stopping.best = 6
              /\ early_stopping.current_patience = 2
        /\ accs = <<6, 6>> =>
              /\ rets = <<FALSE, FALSE>>
              /\ early_stopping.current_patience = 1
        /\ accs = <<6, 6, 6>> =>
              /\ rets = <<FALSE, FALSE, TRUE>>
              /\ early_stopping.current_patience = 0

\* C1, amended: with patience 2, accuracies 0.6, 0.6, 0.6 give False, False,
\* False: the first call records best 0.6 and patience 2, and the second and
\* third, whose accuracy equals the best, pass the >= test and leave best 0.6
\* and patience 2.  Accuracies 0.6, 0.5, 0.5 (strictly below the best) give
\* False, False, True with patience 1 and then 0.
C1Amended ==
    early_stopping.max_patience = 2 =>
        /\ accs = <<6>> =>
              /\ rets = <<FALSE>>
              /\ early_stopping.best = 6
              /\ early_stopping.current_patience = 2
        /\ accs = <<6, 6>> =>
              /\ rets = <<FALSE, FALSE>>
              /\ early_stopping.best = 6
              /\ early_stopping.current_patience = 2
        /\ accs = <<6, 6, 6>> =>
              /\ rets = <<FALSE, FALSE, FALSE>>
              /\ early_stopping.best = 6
              /\ early_stopping.current_patience = 2
        /\ accs = <<6, 5>> =>
              /\ rets = <<FALSE, FALSE>>
              /\ early_stopping.current_patience = 1
        /\ accs = <<6, 5, 5>> =>
              /\ rets = <<FALSE, FALSE, TRUE>>
              /\ early_stopping.best = 6
              /\ early_stopping.current_patience = 0

\* The object with patience 2 after three updates with accuracy 0.6.
C1Witness ==
    /\ pc = "idle"
    /\ early_stopping.max_patience = 2
    /\ accs = <<6, 6, 6>>
    /\ Len(rets) = 3

\* C2: the epoch loop terminates; it never runs more than n_iter epochs; it
\* ends with early_stopping.update having returned True, or with the budget of
\* n_iter epochs used up and no update having returned True (or, outside the
\* claim's cases, with a call that raised).
C2Theorem ==
    /\ [](/\ i <= n_iter
          /\ Len(accs) <= n_iter
          /\ Len(rets) <= n_iter
          /\ pc = "stopped_early" =>
                 /\ failure = "none"
                 /\ rets # <<>>
                 /\ rets[Len(rets)] = TRUE
          /\ pc = "stopped_budget" =>
                 /\ failure = "none"
                 /\ i = n_iter
                 /\ Len(rets) = n_iter
                 /\ \A k \in 1..Len(rets) : rets[k] = FALSE
          /\ pc = "aborted" => failure # "none")
    /\ <>Terminated

\* A run that stopped early with budget left, and had epochs that improved.
C2Witness ==
    /\ pc = "stopped_early"
    /\ Len(accs) < n_iter
    /\ early_stopping.best > InitialBest

\* C5 as stated: report_progress never throws, so no run ends with the failure
\* of send_metrics, and every report is followed by the early-stopping update.
C5Original ==
    /\ failure # "send_metrics"
    /\ Len(reports) > Len(rets) => pc = "early_stopping"

\* C5, amended: report_progress prints the line and then calls send_metrics
\* unguarded.  With the no-op sink of the entry point it does not throw and the
\* loop goes on to the early-stopping update of the same epoch.  When the sink
\* raises or is not defined, the exception leaves report_progress after the
\* line has been printed, and the run aborts before that epoch's
\* early-stopping update.
C5Amended ==
    /\ failure = "send_metrics" =>
           /\ send_metrics # "noop"
           /\ pc = "aborted"
           /\ printed = i + 1
           /\ Len(reports) = i + 1
           /\ Len(rets) = i
           /\ sent = <<>>
    /\ send_metrics # "noop" =>
           /\ pc \notin {"early_stopping", "stopped_early"}
           /\ rets = <<>>
           /\ pc = "aborted" /\ Len(reports) = 1 => failure = "send_metrics"
    /\ send_metrics = "noop" =>
           /\ failure # "send_metrics"
           /\ pc = "early_stopping" =>
                  /\ printed = i + 1
                  /\ Len(sent) = i + 1
                  /\ Len(rets) = i

\* The sink is not defined, and the first report aborted the run.
C5Witness ==
    /\ failure = "send_metrics"
    /\ send_metrics = "undefined"
    /\ printed = 1
    /\ n_iter > 1

\* C6: the averaged parameters are in the model exactly while
\* evaluate_textcat runs, also after an evaluation that raised, and every
\* nlp.update of every epoch has run on the live parameters.
C6Theorem ==
    /\ update_on \subseteq {"live"}
    /\ params = "averaged" <=> pc = "evaluate"
    /\ failure = "evaluate_textcat" => params = "live"

\* An nlp.update of an epoch after the first evaluation has run.
C6Witness ==
    /\ pc = "batches"
    /\ Len(accs) >= 1
    /\ b >= 1
    /\ update_on = {"live"}

\* C9: the patience is 5 minus the number of most recent consecutive epochs
\* with an accuracy strictly below the best; an update decreases it by 1 on
\* such an epoch and resets it to 5 otherwise; it is within 1..5 unless the
\* loop has stopped early, which it has exactly when the patience is 0; the
\* best is the largest of 0.5 and the accuracies seen, and never decreases.
C9Theorem ==
    /\ [](LET k == Len(rets)
              cp == early_stopping.current_patience IN
          /\ cp = TrainPatience - Trailing(k)
          /\ early_stopping.max_patience = TrainPatience
          /\ early_stopping.best = MaxOfPrefix(k, InitialBest)
          /\ early_stopping.best >= InitialBest
          /\ cp \in 0..TrainPatience
          /\ cp = 0 <=> pc = "stopped_early"
          /\ ~Terminated => cp \in 1..TrainPatience)
    /\ [][/\ early_stopping.best' >= early_stopping.best
          /\ rets' # rets =>
                IF scores.acc < early_stopping.best
                THEN /\ early_stopping'.current_patience
                            = early_stopping.current_patience - 1
                     /\ early_stopping'.best = early_stopping.best
                ELSE /\ early_stopping'.current_patience = TrainPatience
                     /\ early_stopping'.best = scores.acc
          /\ rets' = rets => early_stopping' = early_stopping]_vars

\* The loop stopped early after an epoch that had reset the patience by
\* equalling the best.
C9Witness ==
    /\ pc = "stopped_early"
    /\ early_stopping.current_patience = 0
    /\ \E k \in 2..Len(accs) : accs[k] = accs[k - 1] /\ accs[k] = 6

\* C10: every epoch is reported once, after its evaluation and before its
\* early-stopping update, the stopping epoch too; the report of epoch k
\* carries the largest of 0.0 and the accuracies of epochs 0..k, so the
\* reported best never decreases.
C10Theorem ==
    /\ Len(rets) <= Len(reports)
    /\ Len(reports) <= Len(accs)
    /\ Len(accs) <= Len(rets) + 1
    /\ pc \in {"for", "batches", "evaluate"} =>
           Len(reports) = i /\ Len(accs) = i
    /\ pc = "report" =>
           Len(accs) = i + 1 /\ Len(reports) = i /\ Len(rets) = i
    /\ pc = "early_stopping" =>
           Len(accs) = i + 1 /\ Len(reports) = i + 1 /\ Len(rets) = i
    /\ pc = "stopped_early" =>
           Len(accs) = i + 1 /\ Len(reports) = i + 1 /\ Len(rets) = i + 1
    /\ pc = "stopped_budget" => Len(reports) = n_iter
    /\ printed = Len(reports)
    /\ \A k \in 1..Len(reports) :
           /\ reports[k].epoch = k - 1
           /\ reports[k].best_acc = MaxOfPrefix(k, 0)
           /\ k > 1 => reports[k].best_acc >= reports[k - 1].best_acc

\* The epoch that stopped the loop was reported, with a best above its own
\* accuracy.
C10Witness ==
    /\ pc = "stopped_early"
    /\ Len(reports) = Len(accs)
    /\ reports[Len(reports)].best_acc > accs[Len(accs)]
    /\ reports[Len(reports)].epoch = i

----------------------------------------------------------------------------
(* Properties of load_textcat_data *)

SplitDone == lpc \in {"returned", "raised_unpack"}

Places(seq) == {seq[k] : k \in 1..Len(seq)}

\* C3 as stated: for every limit and num_eval, 0 and values above the number
\* of records included, the call returns splits with |eval| = num_eval and
\* |train| = min(limit, |all| - num_eval), no place in both.
C3Original ==
    SplitDone =>
        /\ lpc = "returned"
        /\ Len(load_result.eval_texts) = num_eval
        /\ Len(load_result.train_texts)
               = Min(limit, Len(data) - num_eval)
        /\ Places(load_result.train_pos) \cap Places(load_result.eval_pos)
               = {}

\* C3, amended: the call returns splits exactly when
\* 1 <= num_eval < |all|; otherwise (num_eval = 0, where data[-0:] is the
\* whole list and data[:-0] is empty, or num_eval >= |all|) the training
\* split is empty and the unpacking raises.  When it returns, the evaluation
\* split is the last num_eval records, the training split is the last
\* min(limit, |all| - num_eval) records before them when limit >= 1 and
\* all |all| - num_eval of them when limit = 0, and no place of the shuffled
\* list is in both.
C3Amended ==
    LET n == Len(data)
        nTrainSplit == IF limit = 0 THEN n - num_eval
                       ELSE Min(limit, n - num_eval) IN
    /\ SplitDone => (lpc = "returned" <=> (1 <= num_eval /\ num_eval < n))
    /\ lpc = "raised_unpack" => load_result = NoSplits
    /\ lpc = "returned" =>
          /\ Len(load_result.eval_texts) = num_eval
          /\ Len(load_result.eval_cats) = num_eval
          /\ Len(load_result.train_texts) = nTrainSplit
          /\ Len(load_result.train_cats) = nTrainSplit
          /\ load_result.eval_pos
                 = [k \in 1..num_eval |-> n - num_eval + k]
          /\ load_result.train_pos
                 = [k \in 1..nTrainSplit |-> n - num_eval - nTrainSplit + k]
          /\ Places(load_result.train_pos) \cap Places(load_result.eval_pos)
                 = {}
          /\ \A k \in 1..num_eval :
                 load_result.eval_texts[k]
                     = data[load_result.eval_pos[k]][1]
          /\ \A k \in 1..nTrainSplit :
                 load_result.train_texts[k]
                     = data[load_result.train_pos[k]][1]

\* A call that returned a training split cut down by limit.
C3Witness ==
    /\ lpc = "returned"
    /\ limit >= 1
    /\ limit < Len(data) - num_eval
    /\ Len(load_result.train_texts) = limit

\* The label field of a line with a comma: what precedes the first comma.
LabelField(line) ==
    IF \E k \in 1..Len(line) : line[k] = ","
    THEN SubSeq(line, 1, (CHOOSE k \in 1..Len(line) :
                             /\ line[k] = ","
                             /\ \A j \in 1..(k - 1) : line[j] # ",") - 1)
    ELSE <<>>

NoComma(line) == \A k \in 1..Len(line) : line[k] # ","

\* The label field is one of "1", "2", "3", "4".
LabelInRange(line) ==
    \E k \in 1..NClasses : LabelField(line) = <<LabelNames[k]>>

AllDigits(field) ==
    /\ Len(field) >= 1
    /\ \A k \in 1..Len(field) :
           field[k] \in {"0", "1", "2", "3", "4", "5", "6", "7", "8", "9"}

\* C4 as stated: the call fails, and returns no splits, whenever a line has no
\* comma or a label outside 1..4; no such label is turned into a label map.
C4Original ==
    /\ (lpc # "read" /\ \E k \in 1..Len(lines) :
                            NoComma(lines[k]) \/ ~LabelInRange(lines[k]))
           => lpc = "raised_parse" /\ load_result = NoSplits
    /\ lpc = "returned" => \A k \in 1..Len(data) : data[k][2] \in 1..NClasses

\* C4, amended: the call fails with a ValueError while reading, and returns
\* no splits, exactly when a line has no comma or a label field that is not an
\* integer literal.  A label outside 1..4 is not rejected: it is turned into
\* a label map whose four entries are all False, as every label y gets the
\* map with d[str(k)] = (y == k).
C4Amended ==
    /\ lpc # "read" =>
          (lpc = "raised_parse" <=>
              \E k \in 1..Len(lines) :
                  NoComma(lines[k]) \/ ~AllDigits(LabelField(lines[k])))
    /\ lpc = "raised_parse" => load_result = NoSplits /\ data = <<>>
    /\ lpc \in {"shuffle", "split", "returned", "raised_unpack"} =>
          /\ Len(data) = Len(lines)
          /\ \A k \in 1..Len(lines) :
                 LET line == lines[IF lpc = "shuffle" THEN k ELSE shuffled[k]]
                 IN  /\ Len(data[k][1]) + Len(LabelField(line)) + 1
                            = Len(line)
                     /\ LabelField(line) \o <<",">> \o data[k][1] = line
                     /\ Len(LabelField(line)) = 1 =>
                            Digits[data[k][2] + 1] = LabelField(line)[1]
    /\ lpc = "returned" =>
          /\ \A k \in 1..Len(load_result.train_cats) :
                 \A c \in 1..NClasses :
                     load_result.train_cats[k][LabelNames[c]]
                         = (data[load_result.train_pos[k]][2] = c)
          /\ \A k \in 1..Len(load_result.eval_cats) :
                 \A c \in 1..NClasses :
                     load_result.eval_cats[k][LabelNames[c]]
                         = (data[load_result.eval_pos[k]][2] = c)

\* A call that returned a label map, all False, for a line with label 5.
C4Witness ==
    /\ lpc = "returned"
    /\ \E k \in 1..Len(load_result.train_cats) :
          /\ data[load_result.train_pos[k]][2] = 5
          /\ \A c \in 1..NClasses :
                 load_result.train_cats[k][LabelNames[c]] = FALSE

----------------------------------------------------------------------------
(* Properties of the optimizer configuration and of evaluate_textcat *)

SumOf(c) == c.tp + c.fp + c.tn + c.fn

\* C8 as stated: every (example, gold label) pair increments exactly one
\* counter, so at the end tp + fp + tn + fn is the number of such pairs, also
\* when a gold label has no predicted score.
C8Original == epc = "returned" => SumOf(counters) = n_gold_pairs

\* C8, amended: the loop runs over the doc's predicted scores, not over the
\* gold map.  Every label that has a predicted score that is a number and is
\* present in the gold map increments exactly one counter by 1, chosen by the
\* 0.5 threshold on the score and on the gold value; a gold label with no
\* predicted score (or with a NaN score) increments none.  So
\* tp + fp + tn + fn is the number of (example, label) pairs whose label is in
\* both maps with a score that is a number.
C8Amended ==
    /\ [](SumOf(counters) = n_scored_pairs)
    /\ [][doc' = doc + 1 =>
            LET both == {l \in DOMAIN gold' \cap DOMAIN cats' :
                            cats'[l] # NaNScore}
                hi(l) == cats'[l] >= Threshold
                pos(l) == gold'[l] >= Threshold IN
            /\ counters'.tp - counters.tp
                   = Cardinality({l \in both : hi(l) /\ pos(l)})
            /\ counters'.fp - counters.fp
                   = Cardinality({l \in both : hi(l) /\ ~pos(l)})
            /\ counters'.tn - counters.tn
                   = Cardinality({l \in both : ~hi(l) /\ ~pos(l)})
            /\ counters'.fn - counters.fn
                   = Cardinality({l \in both : ~hi(l) /\ pos(l)})]_vars

\* A finished run in which a gold label had no predicted score and another
\* had a score on the threshold.
C8Witness ==
    /\ epc = "returned"
    /\ n_scored_pairs < n_gold_pairs
    /\ \E l \in DOMAIN gold : l \notin DOMAIN cats
    /\ \E l \in DOMAIN gold \cap DOMAIN cats : cats[l] = Threshold
    /\ counters.tp >= 1

====
